---- MODULE Spec2Model ----
(***************************************************************************)
(* Model of package lora (src/lora/lora.go): the packet-forwarder codec.   *)
(*   TxPacket.UnarshalJSON  - downlink decode into a TxPacket              *)
(*   RxPacket.MarshalJSON   - uplink encode of an RxPacket                 *)
(* Strings are TLA+ strings; a byte slice is a sequence of 0..255.         *)
(* Floating point wire values are kept on the grids on which the Go        *)
(* conversions are exact: freq in whole MHz, fdev in whole units, rssi and *)
(* lsnr in tenths of a dB.  Every number drawn stays below 2^31, so no     *)
(* uint32 conversion or scan wraps or overflows.                           *)
(***************************************************************************)
EXTENDS Integers, Sequences, FiniteSets, TLC

VARIABLES pc,       \* "start" before the call, "done" after it
          arg,      \* the wire object handed to tx.UnarshalJSON
          arg2,     \* the wire object handed to twin.UnarshalJSON
          txPre,    \* the TxPacket as it was before the call
          tx,       \* the TxPacket the decode writes into
          txErr,    \* the error tx.UnarshalJSON returned
          twin,     \* a second TxPacket, equal to tx before the call
          twinErr,  \* the error twin.UnarshalJSON returned
          rx,       \* the RxPacket handed to MarshalJSON
          buf,      \* the chunks MarshalJSON wrote, in order
          rxRes     \* "none" before the call, then "ok" or "panic"

vars == <<pc, arg, arg2, txPre, tx, txErr, twin, twinErr, rx, buf, rxRes>>

-----------------------------------------------------------------------------
(* Bounds of the model *)

MaxPayloadLen == 2     \* longest payload drawn for an RxPacket
MaxSF == 8             \* spreading factors 7..MaxSF are drawn
MaxBWCode == 11        \* RxPacket.LoRaBW is drawn from 0..MaxBWCode
MaxCRCode == 9         \* RxPacket.LoRaCR is drawn from 4..MaxCRCode, and 0

-----------------------------------------------------------------------------
(* Text helpers: what fmt's %d, %0Nd and digit scanning do *)

Ch(s, i) == SubSeq(s, i, i)

Digits == "0123456789"

IsDigit(c) == \E d \in 1..10 : Ch(Digits, d) = c

DigitVal(c) == (CHOOSE d \in 1..10 : Ch(Digits, d) = c) - 1

RECURSIVE Itoa(_)
Itoa(n) == IF n < 10 THEN Ch(Digits, n + 1)
           ELSE Itoa(n \div 10) \o Ch(Digits, (n % 10) + 1)

FmtInt(n) == IF n < 0 THEN "-" \o Itoa(-n) ELSE Itoa(n)

RECURSIVE Pad(_, _)
Pad(n, w) == IF Len(Itoa(n)) >= w THEN Itoa(n) ELSE "0" \o Pad(n, w - 1)

RECURSIVE Atoi(_)
Atoi(s) == IF Len(s) = 0 THEN 0
           ELSE 10 * Atoi(SubSeq(s, 1, Len(s) - 1)) + DigitVal(Ch(s, Len(s)))

RECURSIVE SkipSpace(_, _)
SkipSpace(s, i) == IF i <= Len(s) /\ Ch(s, i) = " " THEN SkipSpace(s, i + 1) ELSE i

RECURSIVE DigitRun(_, _)
DigitRun(s, i) == IF i <= Len(s) /\ IsDigit(Ch(s, i)) THEN DigitRun(s, i + 1) ELSE i

-----------------------------------------------------------------------------
(* encoding/base64, StdEncoding (padded, not strict).  Inputs hold no CR/LF. *)

B64 == "ABCDEFGHIJKLMNOPQRSTUVWXYZabcdefghijklmnopqrstuvwxyz0123456789+/"

IsB64(c) == \E k \in 1..64 : Ch(B64, k) = c

B64Val(c) == (CHOOSE k \in 1..64 : Ch(B64, k) = c) - 1

B64Ch(v) == Ch(B64, v + 1)

RECURSIVE EncodeToString(_)
EncodeToString(b) ==
    IF Len(b) = 0 THEN ""
    ELSE IF Len(b) = 1 THEN
        B64Ch(b[1] \div 4) \o B64Ch((b[1] % 4) * 16) \o "=="
    ELSE IF Len(b) = 2 THEN
        B64Ch(b[1] \div 4) \o B64Ch((b[1] % 4) * 16 + b[2] \div 16)
            \o B64Ch((b[2] % 16) * 4) \o "="
    ELSE
        B64Ch(b[1] \div 4) \o B64Ch((b[1] % 4) * 16 + b[2] \div 16)
            \o B64Ch((b[2] % 16) * 4 + b[3] \div 64) \o B64Ch(b[3] % 64)
            \o EncodeToString(SubSeq(b, 4, Len(b)))

BadB64 == [ok |-> FALSE, bytes |-> <<>>]

\* DecodeString: quanta of four characters; '=' only closes the last quantum
RECURSIVE DecodeString(_)
DecodeString(s) ==
    IF Len(s) = 0 THEN [ok |-> TRUE, bytes |-> <<>>]
    ELSE IF Len(s) < 4 THEN BadB64
    ELSE LET c1 == Ch(s, 1)
             c2 == Ch(s, 2)
             c3 == Ch(s, 3)
             c4 == Ch(s, 4)
             last == Len(s) = 4
             b1 == B64Val(c1) * 4 + B64Val(c2) \div 16
             b2 == (B64Val(c2) % 16) * 16 + B64Val(c3) \div 4
             b3 == (B64Val(c3) % 4) * 64 + B64Val(c4)
             more == DecodeString(SubSeq(s, 5, Len(s)))
         IN  IF ~(IsB64(c1) /\ IsB64(c2)) THEN BadB64
             ELSE IF c3 = "=" THEN
                 IF c4 = "=" /\ last THEN [ok |-> TRUE, bytes |-> <<b1>>] ELSE BadB64
             ELSE IF ~IsB64(c3) THEN BadB64
             ELSE IF c4 = "=" THEN
                 IF last THEN [ok |-> TRUE, bytes |-> <<b1, b2>>] ELSE BadB64
             ELSE IF ~IsB64(c4) THEN BadB64
             ELSE IF ~more.ok THEN BadB64
             ELSE [ok |-> TRUE, bytes |-> <<b1, b2, b3>> \o more.bytes]

-----------------------------------------------------------------------------
(* fmt.Sscanf(datr, "SF%dBW%d", &tx.Datarate, &bw) *)

\* a literal of the format must match the input: the next position, or 0
ScanLit(s, i, lit) ==
    IF i >= 1 /\ i + Len(lit) - 1 <= Len(s) /\ SubSeq(s, i, i + Len(lit) - 1) = lit
    THEN i + Len(lit) ELSE 0

\* %d into a uint32 (signed = FALSE) or an int (signed = TRUE), from position i
ScanInt(s, i, signed) ==
    LET j == SkipSpace(s, i)
        neg == signed /\ j <= Len(s) /\ Ch(s, j) = "-"
        k == IF signed /\ j <= Len(s) /\ Ch(s, j) \in {"+", "-"} THEN j + 1 ELSE j
        e == DigitRun(s, k)
        v == Atoi(SubSeq(s, k, e - 1))
    IN  IF e = k THEN [ok |-> FALSE, val |-> 0, next |-> k]
        ELSE [ok |-> TRUE, val |-> IF neg THEN -v ELSE v, next |-> e]

\* n operands stored (sf when n >= 1, bw when n = 2) and whether err # nil
Sscanf(datr) ==
    LET i1 == ScanLit(datr, 1, "SF")
        a  == ScanInt(datr, i1, FALSE)
        i2 == ScanLit(datr, a.next, "BW")
        b  == ScanInt(datr, i2, TRUE)
    IN  IF i1 = 0 \/ ~a.ok THEN [n |-> 0, sf |-> 0, bw |-> 0, err |-> TRUE]
        ELSE IF i2 = 0 \/ ~b.ok THEN [n |-> 1, sf |-> a.val, bw |-> 0, err |-> TRUE]
        ELSE [n |-> 2, sf |-> a.val, bw |-> b.val, err |-> FALSE]

-----------------------------------------------------------------------------
(* TxPacket and the wire struct of UnarshalJSON *)

ErrNone == "nil"
ErrNotString == "can not parse lora datarate (not a string)"
ErrDatrParse == "can not parse lora datarate"
ErrUnknownBandwidth == "unknown bandwidth"
ErrCoderate == "can not parse lora coderate"
ErrNotNumber == "can not parse lora datarate (not a number)"
ErrUnknownModulation == "unknown modulation"
ErrData == "can not decode data"

\* the zero value of TxPacket
ZeroTx == [Immediate |-> FALSE, CountUs |-> 0, TimeGPS |-> 0, Freq |-> 0,
           Power |-> 0, ChainRF |-> 0, Modulation |-> "", LoRaBW |-> 0,
           LoRaCR |-> 0, InvertPolar |-> FALSE, Datarate |-> 0,
           PreambleLength |-> 0, NoCRC |-> FALSE, FreqDev |-> 0, Data |-> <<>>]

\* datr is an interface{}: nil, a string or a float64
NilDatr == [kind |-> "nil", str |-> "", num |-> 0]
StrDatr(s) == [kind |-> "string", str |-> s, num |-> 0]
NumDatr(n) == [kind |-> "number", str |-> "", num |-> n]

\* the zero value of the anonymous struct txpk
ZeroTxpk == [imme |-> FALSE, tmst |-> 0, tmms |-> 0, ncrc |-> FALSE, freq |-> 0,
             rfch |-> 0, powe |-> 0, modu |-> "", datr |-> NilDatr, codr |-> "",
             ipol |-> FALSE, prea |-> 0, fdev |-> 0, data |-> ""]

\* a variant of the declaration that fills txpk from the argument
txpkFromArg(b) == b

\* var txpk = struct{...}{}: the argument is never decoded into it
txpk(b) == ZeroTxpk

\* switch bw: the LoRaBW code, 0 for the default case
BwCase(bw) ==
    CASE bw = 7 -> 1
      [] bw = 10 -> 2
      [] bw = 15 -> 3
      [] bw = 20 -> 4
      [] bw = 31 -> 5
      [] bw = 41 -> 6
      [] bw = 62 -> 7
      [] bw = 128 -> 8
      [] bw = 250 -> 9
      [] bw = 500 -> 10
      [] OTHER -> 0

\* switch txpk.Coderate: the LoRaCR code, 0 for the default case
CrCase(codr) ==
    CASE codr = "4/5" -> 5
      [] codr \in {"4/6", "2/3"} -> 6
      [] codr = "4/7" -> 7
      [] codr \in {"4/8", "2/4", "1/2"} -> 8
      [] OTHER -> 0

\* the tail of UnarshalJSON: the payload
DecodeData(t, w) ==
    LET d == DecodeString(w.data)
    IN  IF ~d.ok THEN [tx |-> t, err |-> ErrData]
        ELSE [tx |-> [t EXCEPT !.Data = d.bytes], err |-> ErrNone]

\* case "LORA"
DecodeLora(t1, w) ==
    LET t2 == [t1 EXCEPT !.Modulation = "LORA"]
        sc == Sscanf(w.datr.str)
        t3 == IF sc.n >= 1 THEN [t2 EXCEPT !.Datarate = sc.sf] ELSE t2
        t4 == [t3 EXCEPT !.LoRaBW = BwCase(sc.bw)]
        t5 == [t4 EXCEPT !.LoRaCR = CrCase(w.codr)]
        t6 == [t5 EXCEPT !.InvertPolar = w.ipol, !.PreambleLength = w.prea]
    IN  IF w.datr.kind # "string" THEN [tx |-> t2, err |-> ErrNotString]
        ELSE IF sc.err THEN [tx |-> t3, err |-> ErrDatrParse]
        ELSE IF BwCase(sc.bw) = 0 THEN [tx |-> t3, err |-> ErrUnknownBandwidth]
        ELSE IF CrCase(w.codr) = 0 THEN [tx |-> t4, err |-> ErrCoderate]
        ELSE DecodeData(t6, w)

\* case "FSK"
DecodeFsk(t1, w) ==
    LET t2 == [t1 EXCEPT !.Modulation = "FSK"]
        t3 == [t2 EXCEPT !.Datarate = w.datr.num,
                         !.FreqDev = (w.fdev \div 1000) % 256,
                         !.PreambleLength = w.prea]
    IN  IF w.datr.kind # "number" THEN [tx |-> t2, err |-> ErrNotNumber]
        ELSE DecodeData(t3, w)

\* the body of UnarshalJSON on the wire struct w
DecodeBody(t, w) ==
    LET t1 == [t EXCEPT !.Immediate = w.imme, !.CountUs = w.tmst,
                        !.NoCRC = w.ncrc, !.Freq = w.freq * 1000000,
                        !.ChainRF = w.rfch, !.Power = w.powe]
    IN  CASE w.modu = "LORA" -> DecodeLora(t1, w)
          [] w.modu = "FSK" -> DecodeFsk(t1, w)
          [] OTHER -> [tx |-> t1, err |-> ErrUnknownModulation]

\* func (tx *TxPacket) UnarshalJSON([]byte) error
UnarshalJSON(t, b) == DecodeBody(t, txpk(b))

-----------------------------------------------------------------------------
(* RxPacket and MarshalJSON *)

\* a variant of the table with the 125 kHz label typed as the decoder's switch has it
bwStrTypo == <<"", "BW7.8", "BW10.4", "BW15.6", "BW20.8", "BW31.2", "BW41.7",
               "BW62.5", "BW128", "BW250", "BW500">>

\* the table indexed by RxPacket.LoRaBW (Go index i is position i + 1)
bwStr == <<"", "BW7.8", "BW10.4", "BW15.6", "BW20.8", "BW31.2", "BW41.7",
           "BW62.5", "BW125", "BW250", "BW500">>

\* time.Time.Format(time.RFC3339): "2006-01-02T15:04:05Z07:00"
FormatRFC3339(t) ==
    LET a == IF t.off < 0 THEN -t.off ELSE t.off
        zone == IF t.off = 0 THEN "Z"
                ELSE (IF t.off < 0 THEN "-" ELSE "+")
                     \o Pad(a \div 60, 2) \o ":" \o Pad(a % 60, 2)
    IN  Pad(t.year, 4) \o "-" \o Pad(t.month, 2) \o "-" \o Pad(t.day, 2) \o "T"
        \o Pad(t.hour, 2) \o ":" \o Pad(t.min, 2) \o ":" \o Pad(t.sec, 2) \o zone

\* %.6f of float64(hz)/1e6
FmtMHz(hz) == Itoa(hz \div 1000000) \o "." \o Pad(hz % 1000000, 6)

\* %.1f of a float32 given in tenths
FmtF1(t) ==
    LET a == IF t < 0 THEN -t ELSE t
    IN  (IF t < 0 THEN "-" ELSE "") \o Itoa(a \div 10) \o "." \o Itoa(a % 10)

\* %.0f of a float32 given in tenths: round to nearest, an exact half to even
FmtF0(t) ==
    LET a == IF t < 0 THEN -t ELSE t
        q == a \div 10
        r == a % 10
        up == r > 5 \/ (r = 5 /\ q % 2 = 1)
    IN  (IF t < 0 THEN "-" ELSE "") \o Itoa(IF up THEN q + 1 ELSE q)

Quote(s) == "\"" \o s \o "\""

Chunk(k, v) == [key |-> k, val |-> v]

\* the six writes before the modulation branch
HeadFields(r) ==
    << Chunk("tmst", FmtInt(r.CountUs)),
       Chunk("time", Quote(FormatRFC3339(r.Time))),
       Chunk("chan", FmtInt(r.ChainIF)),
       Chunk("rfch", FmtInt(r.ChainRF)),
       Chunk("freq", FmtMHz(r.Freq)),
       Chunk("stat", FmtInt(r.StatCRC)) >>

\* a variant of the LoRa branch that formats the coding rate before the datarate
LoraFieldsSwapped(r) ==
    << Chunk("modu", Quote("LORA")),
       Chunk("codr", Quote("4/" \o FmtInt(r.LoRaCR))),
       Chunk("datr", Quote("SF" \o FmtInt(r.Datarate) \o bwStr[r.LoRaBW + 1])),
       Chunk("lsnr", FmtF1(r.LoRaSNR)) >>

\* if rx.Modulation == "LORA" { ... }; bwStr[rx.LoRaBW] is in range here
LoraFields(r) ==
    << Chunk("modu", Quote("LORA")),
       Chunk("datr", Quote("SF" \o FmtInt(r.Datarate) \o bwStr[r.LoRaBW + 1])),
       Chunk("codr", Quote("4/" \o FmtInt(r.LoRaCR))),
       Chunk("lsnr", FmtF1(r.LoRaSNR)) >>

\* else { ... }
FskFields(r) ==
    << Chunk("modu", Quote("FSK")),
       Chunk("datr", FmtInt(r.Datarate)) >>

\* the three writes after the modulation branch
TailFields(r) ==
    << Chunk("rssi", FmtF0(r.RSSI)),
       Chunk("size", FmtInt(Len(r.Data))),
       Chunk("data", Quote(EncodeToString(r.Data))) >>

\* indexing bwStr out of range panics
bwIndexPanics(r) == r.Modulation = "LORA" /\ r.LoRaBW + 1 > Len(bwStr)

\* func (rx *RxPacket) MarshalJSON() ([]byte, error): the writes, or a panic
MarshalJSON(r) ==
    IF bwIndexPanics(r) THEN [res |-> "panic", buf |-> <<>>]
    ELSE [res |-> "ok",
          buf |-> HeadFields(r)
                  \o (IF r.Modulation = "LORA" THEN LoraFields(r) ELSE FskFields(r))
                  \o TailFields(r)]

-----------------------------------------------------------------------------
(* Inputs *)

\* the kHz labels of bandwidth codes 1..10
KHzLabel == <<"7.8", "10.4", "15.6", "20.8", "31.2", "41.7", "62.5", "125", "250", "500">>

SFs == 7..MaxSF

TableDatr(n, c) == StrDatr("SF" \o Itoa(n) \o "BW" \o KHzLabel[c])

Datrs == {TableDatr(n, c) : n \in SFs, c \in 1..10}
         \cup {StrDatr("SF7BW999"), StrDatr("SF7BW128"), StrDatr("garbage"),
               NumDatr(50000), NilDatr}

Modus == {"LORA", "FSK", "GFSK"}

AcceptedCodr == {"4/5", "4/6", "2/3", "4/7", "4/8", "2/4", "1/2"}

Codrs == AcceptedCodr \cup {"4/9", ""}

\* "SGVsbG8=" is Hello; "!!!!" is not base64
Datas == {"", "SGVsbG8=", "AQI=", "/w==", "!!!!"}

Wire(m, d, c, p) ==
    [imme |-> TRUE, tmst |-> 5000, tmms |-> 0, ncrc |-> TRUE, freq |-> 868,
     rfch |-> 1, powe |-> 14, modu |-> m, datr |-> d, codr |-> c,
     ipol |-> TRUE, prea |-> 8, fdev |-> 25000, data |-> p]

Wires == {Wire(m, d, c, p) : m \in Modus, d \in Datrs, c \in Codrs, p \in Datas}
         \cup {ZeroTxpk}

\* the second call's arguments: nothing, a LoRa command, an FSK command
Wires2 == {ZeroTxpk,
           Wire("LORA", StrDatr("SF7BW128"), "4/5", "AQI="),
           Wire("FSK", NumDatr(50000), "", "/w==")}

\* packets a caller may decode into: a fresh one, and two filled ones
UsedLoraTx == [ZeroTx EXCEPT !.Immediate = TRUE, !.CountUs = 77, !.Freq = 868100000,
                             !.Power = 27, !.ChainRF = 1, !.Modulation = "LORA",
                             !.LoRaBW = 9, !.LoRaCR = 7, !.InvertPolar = TRUE,
                             !.Datarate = 12, !.PreambleLength = 8, !.NoCRC = TRUE,
                             !.Data = <<1, 2, 3>>]

UsedFskTx == [ZeroTx EXCEPT !.TimeGPS = 9, !.Freq = 869525000, !.Power = 14,
                            !.Modulation = "FSK", !.Datarate = 50000,
                            !.PreambleLength = 5, !.FreqDev = 25, !.Data = <<255>>]

TxPackets == {ZeroTx, UsedLoraTx, UsedFskTx}

ZeroTime == [year |-> 1, month |-> 1, day |-> 1, hour |-> 0, min |-> 0, sec |-> 0, off |-> 0]

ZeroRx == [Time |-> ZeroTime, CountUs |-> 0, Freq |-> 0, ChainIF |-> 0, ChainRF |-> 0,
           StatCRC |-> 0, Modulation |-> "", LoRaBW |-> 0, LoRaCR |-> 0,
           Datarate |-> 0, RSSI |-> 0, LoRaSNR |-> 0, Data |-> <<>>]

\* the scalar fields of a received frame
RxScalars ==
    { ZeroRx,
      [ZeroRx EXCEPT !.Time = [year |-> 2026, month |-> 3, day |-> 9, hour |-> 17,
                                min |-> 4, sec |-> 5, off |-> 0],
                     !.CountUs = 2147483647, !.Freq = 868100000, !.ChainIF = 2,
                     !.ChainRF = 1, !.StatCRC = 1, !.RSSI = -1205, !.LoRaSNR = 95],
      [ZeroRx EXCEPT !.Time = [year |-> 2019, month |-> 12, day |-> 31, hour |-> 23,
                                min |-> 59, sec |-> 59, off |-> -330],
                     !.CountUs = 123456, !.Freq = 869525000, !.ChainIF = 7,
                     !.StatCRC = -1, !.RSSI = -734, !.LoRaSNR = -73] }

RECURSIVE SeqsUpTo(_, _)
SeqsUpTo(S, n) ==
    IF n = 0 THEN {<<>>}
    ELSE SeqsUpTo(S, n - 1)
         \cup {Append(q, x) : q \in {q \in SeqsUpTo(S, n - 1) : Len(q) = n - 1}, x \in S}

Hello == <<72, 101, 108, 108, 111>>

Payloads == SeqsUpTo({1, 255}, MaxPayloadLen) \cup {Hello}

RxModus == {"LORA", "FSK", ""}

RxBWs == 0..MaxBWCode

RxCRs == {0} \cup 4..MaxCRCode

RxDatarates == SFs \cup {12, 50000}

RxPackets ==
    {[s EXCEPT !.Modulation = m, !.LoRaBW = w, !.LoRaCR = c, !.Datarate = d, !.Data = p] :
        s \in RxScalars, m \in RxModus, w \in RxBWs, c \in RxCRs,
        d \in RxDatarates, p \in Payloads}

-----------------------------------------------------------------------------
(* The calls *)

InitTx ==
    /\ pc = "start"
    /\ arg \in Wires
    /\ arg2 \in Wires2
    /\ txPre \in TxPackets
    /\ tx = txPre
    /\ twin = txPre
    /\ txErr = ErrNone
    /\ twinErr = ErrNone
    /\ rx = ZeroRx
    /\ buf = <<>>
    /\ rxRes = "none"

InitRx ==
    /\ pc = "start"
    /\ arg = ZeroTxpk
    /\ arg2 = ZeroTxpk
    /\ txPre = ZeroTx
    /\ tx = ZeroTx
    /\ twin = ZeroTx
    /\ txErr = ErrNone
    /\ twinErr = ErrNone
    /\ rx \in RxPackets
    /\ buf = <<>>
    /\ rxRes = "none"

\* err := tx.UnarshalJSON(arg) and err2 := twin.UnarshalJSON(arg2)
UnarshalJSONCall ==
    /\ pc = "start"
    /\ tx' = UnarshalJSON(tx, arg).tx
    /\ txErr' = UnarshalJSON(tx, arg).err
    /\ twin' = UnarshalJSON(twin, arg2).tx
    /\ twinErr' = UnarshalJSON(twin, arg2).err
    /\ pc' = "done"
    /\ UNCHANGED <<arg, arg2, txPre, rx, buf, rxRes>>

\* b, err := rx.MarshalJSON()
MarshalJSONCall ==
    /\ pc = "start"
    /\ buf' = MarshalJSON(rx).buf
    /\ rxRes' = MarshalJSON(rx).res
    /\ pc' = "done"
    /\ UNCHANGED <<arg, arg2, txPre, tx, txErr, twin, twinErr, rx>>

NextTx == UnarshalJSONCall

NextRx == MarshalJSONCall

SpecTx == InitTx /\ [][NextTx]_vars

SpecRx == InitRx /\ [][NextRx]_vars

-----------------------------------------------------------------------------
(* What the claims speak of *)

Decoded == pc = "done" /\ rxRes = "none" /\ rx = ZeroRx /\ buf = <<>>

Encoded == pc = "done" /\ rxRes # "none"

Returned == Encoded /\ rxRes = "ok"

Keys(b) == [i \in 1..Len(b) |-> b[i].key]

Field(b, k) == b[CHOOSE i \in 1..Len(b) : b[i].key = k].val

HasField(b, k) == \E i \in 1..Len(b) : b[i].key = k

\* datr = "SF<n>BW<b>" with b a bandwidth of the table
IsTableDatr(d) == \E n \in SFs, c \in 1..10 : d = TableDatr(n, c)

\* a LoRa command whose datr and data are valid
LoraButCodr(w) == w.modu = "LORA" /\ IsTableDatr(w.datr) /\ DecodeString(w.data).ok

\* a command every field of which is valid, but perhaps data
ValidButData(w) ==
    \/ w.modu = "LORA" /\ IsTableDatr(w.datr) /\ w.codr \in AcceptedCodr
    \/ w.modu = "FSK" /\ w.datr.kind = "number"

\* the coding-rate code of the alias table
AliasCode(c) == IF c = "4/5" THEN 5
                ELSE IF c \in {"4/6", "2/3"} THEN 6
                ELSE IF c = "4/7" THEN 7
                ELSE 8

LoraKeys == <<"tmst", "time", "chan", "rfch", "freq", "stat", "modu",
              "datr", "codr", "lsnr", "rssi", "size", "data">>

FskKeys == <<"tmst", "time", "chan", "rfch", "freq", "stat", "modu",
             "datr", "rssi", "size", "data">>

-----------------------------------------------------------------------------
(* The claims *)

\* C1: a LoRa command with a valid codr, valid data and datr = "SF<n>BW<b>"
\* decodes, with LoRaBW the table's code of b, when b is a bandwidth of the
\* table, and fails with the unknown-bandwidth error when b = 999.
C1_BandwidthDecoded ==
    (Decoded /\ arg.modu = "LORA" /\ arg.codr \in AcceptedCodr /\ DecodeString(arg.data).ok)
    => /\ \A n \in SFs, c \in 1..10 :
            arg.datr = TableDatr(n, c) => txErr = ErrNone /\ tx.LoRaBW = c
       /\ arg.datr = StrDatr("SF7BW999") => txErr = ErrUnknownBandwidth

\* C2: a LoRa RxPacket whose LoRaBW is outside 1..10 is never encoded: the
\* call returns no wire object.
C2_NoOutputForBadBandwidth ==
    (Encoded /\ rx.Modulation = "LORA" /\ rx.LoRaBW \notin 1..10) => rxRes # "ok"

\* C3: when the decode returns an error, every field of the TxPacket has the
\* value it had before the call.
C3_AllOrNothing ==
    (Decoded /\ txErr # ErrNone) => tx = txPre

\* C4: for a LoRa RxPacket with LoRaBW = c in 1..10 and spreading factor sf,
\* the emitted datr is exactly "SF<sf>BW<kHz label of c>".
C4_DatrLabel ==
    (Encoded /\ rx.Modulation = "LORA" /\ rx.LoRaBW \in 1..10)
    => /\ rxRes = "ok"
       /\ HasField(buf, "datr")
       /\ Field(buf, "datr")
            = Quote("SF" \o Itoa(rx.Datarate) \o "BW" \o KHzLabel[rx.LoRaBW])

C4_Witness ==
    /\ Returned /\ rx.Modulation = "LORA" /\ rx.LoRaBW = 8 /\ rx.Datarate = 7
    /\ Field(buf, "datr") = "\"SF7BW125\""

\* C5: an otherwise valid LoRa command decodes codr through the alias table
\* (4/5 -> 5; 4/6, 2/3 -> 6; 4/7 -> 7; 4/8, 2/4, 1/2 -> 8), and any other
\* codr fails with the unknown-coding-rate error.
C5_CodingRateDecoded ==
    (Decoded /\ LoraButCodr(arg))
    => IF arg.codr \in AcceptedCodr
       THEN txErr = ErrNone /\ tx.LoRaCR = AliasCode(arg.codr)
       ELSE txErr = ErrCoderate

\* C6: every returned encoding of a LoRa RxPacket has a codr among 4/5, 4/6,
\* 4/7, 4/8, and for LoRaCR = n in 5..8 it is "4/<n>".
C6_CanonicalCodr ==
    (Returned /\ rx.Modulation = "LORA")
    => /\ Field(buf, "codr") \in {Quote("4/5"), Quote("4/6"), Quote("4/7"), Quote("4/8")}
       /\ rx.LoRaCR \in 5..8 => Field(buf, "codr") = Quote("4/" \o Itoa(rx.LoRaCR))

\* C7: a LoRa command whose datr is "garbage" fails with the parse error, and
\* an FSK command whose datr is a string fails with the type error.
C7_DatrChecked ==
    Decoded
    => /\ (arg.modu = "LORA" /\ arg.datr = StrDatr("garbage")) => txErr = ErrDatrParse
       /\ (arg.modu = "FSK" /\ arg.datr.kind = "string") => txErr = ErrNotNumber

\* C8: every output has its keys in the fixed order, each once: the six
\* common keys, modu, then datr, codr, lsnr for LoRa and datr alone
\* otherwise, then rssi, size, data.
C8_KeyOrder ==
    Returned => Keys(buf) = IF rx.Modulation = "LORA" THEN LoraKeys ELSE FskKeys

C8_Witness ==
    /\ Returned /\ rx.Modulation = "LORA" /\ rx.LoRaBW = 10 /\ Len(rx.Data) = 2
    /\ Len(buf) = 13 /\ buf[9].key = "codr"

\* C9: a command with valid base64 data s decodes to the payload p of s, and
\* an RxPacket carrying p encodes with data = s and size = Len(p); data that
\* is not base64 makes the decode fail with the payload error.
C9_PayloadRoundTrip ==
    (Decoded /\ ValidButData(arg))
    => IF DecodeString(arg.data).ok
       THEN /\ txErr = ErrNone
            /\ tx.Data = DecodeString(arg.data).bytes
            /\ LET e == MarshalJSON([ZeroRx EXCEPT !.Data = tx.Data])
               IN  /\ e.res = "ok"
                   /\ Field(e.buf, "data") = Quote(arg.data)
                   /\ Field(e.buf, "size") = Itoa(Len(tx.Data))
       ELSE txErr = ErrData

\* C10: two calls on equal TxPackets with any two arguments return the same
\* error and leave the two TxPackets equal.
C10_ArgumentIgnored ==
    Decoded => txErr = twinErr /\ tx = twin

C10_Witness ==
    /\ Decoded /\ arg.modu = "LORA" /\ arg.datr = StrDatr("SF7BW500")
    /\ arg.codr = "2/3" /\ arg.data = "SGVsbG8=" /\ arg2.modu = "FSK"
    /\ txPre = UsedLoraTx /\ txErr = ErrUnknownModulation /\ tx # txPre

====
